---- MODULE Spec2Model ----
(***************************************************************************)
(* jolt-evm-verifier/script/src/bin/hyperkzg_batch_example.rs              *)
(*                                                                         *)
(* main() builds one batched HyperKZG opening over NumPolys random         *)
(* multilinear polynomials, converts every public value to uint256 words   *)
(* and prints the hex of the ABI encoding of one BatchedExample struct.    *)
(*                                                                         *)
(* The state machine below is main(), one action per statement group, run  *)
(* by every member of DOMAIN pc (one process under Spec, two independent   *)
(* processes under PairSpec).  The arithmetic of ark_bn254 is kept in its  *)
(* shape (Montgomery residues, 4-limb big integers, 32-byte big-endian     *)
(* words, affine points with coordinates in Fq and Fq2) over a curve small *)
(* enough for 32-bit integers: y^2 = x^3 + x over F_1051, whose group of   *)
(* order 4 * 263 carries both a G1 and (over Fq2 = Fq[i]/(i^2+1)) a G2     *)
(* subgroup of prime order 263.                                            *)
(*                                                                         *)
(* jolt_core (HyperKZGSRS::setup, trim, HyperKZG::commit, batch_prove,     *)
(* DensePolynomial, ProofTranscript) is not part of the file; it is        *)
(* modelled from the contract the specification gives for it.              *)
(***************************************************************************)
EXTENDS Integers, Sequences, FiniteSets, TLC

(***************************************************************************)
(* Program constants                                                       *)
(***************************************************************************)
ell == 12

NumPolys == 8

RECURSIVE Pow2(_)
Pow2(k) == IF k = 0 THEN 1 ELSE 2 * Pow2(k - 1)

\* let n = 1 << ell
n == Pow2(ell)

\* (variant: the generator seeded from the process, not from the constant)
RngSeedPerRun(run) == ell + run

\* seed_from_u64(ell as u64)
RngSeed(run) == ell

\* ProofTranscript::new(b"TestEval"), the label's bytes
TranscriptLabel(run) == <<84, 101, 115, 116, 69, 118, 97, 108>>

\* BatchType::Big
BatchTypeBig == "Big"

BatchType(run) == BatchTypeBig

(***************************************************************************)
(* Bounds of the model: the collaborator decides how many points the       *)
(* proof's com and w hold; every length in 1..MaxFold is explored.         *)
(***************************************************************************)
MaxFold == 2

(***************************************************************************)
(* Field arithmetic (ark_ff): elements are Montgomery residues x * R of    *)
(* the canonical value x, R = 2^(64 * NumLimbs) mod the modulus.           *)
(***************************************************************************)
FqModulus == 1051

FrModulus == 263

NumLimbs == 4

WordBytes == 8 * NumLimbs

\* a value bound once: F applied to the value of v
Bind(v, F(_)) == CHOOSE y \in {F(bv) : bv \in {v}} : TRUE

RECURSIVE PowMod(_, _, _)
PowMod(b, e, m) ==
    IF e = 0 THEN 1 % m
    ELSE Bind(PowMod(b, e \div 2, m),
              LAMBDA h : IF e % 2 = 0 THEN (h * h) % m ELSE (((h * h) % m) * b) % m)

FqR == PowMod(2, 64 * NumLimbs, FqModulus)

FqRInv == PowMod(FqR, FqModulus - 2, FqModulus)

FrR == PowMod(2, 64 * NumLimbs, FrModulus)

FrRInv == PowMod(FrR, FrModulus - 2, FrModulus)

\* from_bigint
FqToMont(a) == (a * FqR) % FqModulus

FrToMont(a) == (a * FrR) % FrModulus

\* PrimeField::into_bigint: the canonical residue of a Montgomery residue
Fq_into_bigint(x) == (x * FqRInv) % FqModulus

Fr_into_bigint(x) == (x * FrRInv) % FrModulus

FrAdd(x, y) == (x + y) % FrModulus

FrSub(x, y) == (x + FrModulus - y) % FrModulus

FrMul(x, y) == (((x * y) % FrModulus) * FrRInv) % FrModulus

FqNeg(x) == (FqModulus - x) % FqModulus

Fq2Neg(a) == [c0 |-> FqNeg(a.c0), c1 |-> FqNeg(a.c1)]

(***************************************************************************)
(* BigInteger::to_bytes_be and U256::from_be_slice.  A U256 is held as its *)
(* WordBytes big-endian bytes.                                             *)
(***************************************************************************)
RECURSIVE ByteOf(_, _)
\* the byte of significance sig (0 = least) of the integer b
ByteOf(b, sig) ==
    IF b = 0 THEN 0
    ELSE IF sig = 0 THEN b % 256
    ELSE ByteOf(b \div 256, sig - 1)

to_bytes_le(b) == [k \in 1..WordBytes |-> ByteOf(b, k - 1)]

to_bytes_be(b) == [k \in 1..WordBytes |-> ByteOf(b, WordBytes - k)]

from_be_slice(s) ==
    Bind(s, LAMBDA slice :
        LET pad == WordBytes - Len(slice)
        IN  [k \in 1..WordBytes |-> IF k <= pad THEN 0 ELSE slice[k - pad]])

\* U256::from(usize), for the lengths and offsets the ABI encoder writes
U256FromInt(v) == [k \in 1..WordBytes |-> ByteOf(v, WordBytes - k)]

(***************************************************************************)
(* The curve (ark_bn254, ark_ec): k * G for k = 1 .. FrModulus - 1, as     *)
(* canonical affine coordinates.                                           *)
(***************************************************************************)
G1Table == <<
    <<555,784>>, <<189,1007>>, <<718,105>>, <<120,241>>, <<412,460>>, <<618,308>>, <<506,831>>,
    <<841,48>>, <<848,264>>, <<534,653>>, <<642,475>>, <<349,985>>, <<464,418>>, <<682,992>>,
    <<83,138>>, <<373,525>>, <<593,698>>, <<569,354>>, <<184,433>>, <<674,670>>, <<152,508>>,
    <<1038,64>>, <<756,1004>>, <<437,187>>, <<591,263>>, <<644,650>>, <<100,444>>, <<492,880>>,
    <<819,369>>, <<597,548>>, <<779,825>>, <<217,601>>, <<503,376>>, <<67,377>>, <<328,648>>,
    <<224,294>>, <<327,287>>, <<908,968>>, <<145,180>>, <<857,586>>, <<630,1047>>, <<141,920>>,
    <<84,554>>, <<285,921>>, <<903,537>>, <<1018,502>>, <<479,282>>, <<303,438>>, <<652,676>>,
    <<956,876>>, <<563,695>>, <<533,285>>, <<193,452>>, <<713,215>>, <<280,321>>, <<418,1048>>,
    <<104,50>>, <<525,966>>, <<914,413>>, <<676,313>>, <<366,895>>, <<880,241>>, <<580,713>>,
    <<780,906>>, <<382,216>>, <<51,810>>, <<372,195>>, <<410,56>>, <<142,427>>, <<865,480>>,
    <<43,504>>, <<393,60>>, <<44,306>>, <<384,501>>, <<94,612>>, <<993,384>>, <<532,222>>,
    <<720,28>>, <<725,186>>, <<296,172>>, <<307,362>>, <<750,876>>, <<953,408>>, <<302,535>>,
    <<1039,339>>, <<118,445>>, <<444,875>>, <<103,29>>, <<53,394>>, <<707,777>>, <<195,527>>,
    <<278,818>>, <<761,611>>, <<843,866>>, <<798,789>>, <<662,334>>, <<691,505>>, <<420,446>>,
    <<172,27>>, <<405,1019>>, <<842,51>>, <<590,664>>, <<25,702>>, <<829,62>>, <<584,213>>,
    <<16,273>>, <<1029,309>>, <<69,219>>, <<428,140>>, <<884,560>>, <<1036,997>>, <<229,289>>,
    <<966,1026>>, <<611,367>>, <<599,970>>, <<499,26>>, <<573,699>>, <<234,678>>, <<230,263>>,
    <<751,813>>, <<850,529>>, <<157,493>>, <<659,492>>, <<885,951>>, <<299,8>>, <<121,860>>,
    <<919,941>>, <<845,1037>>, <<802,635>>, <<356,815>>, <<396,876>>, <<396,175>>, <<356,236>>,
    <<802,416>>, <<845,14>>, <<919,110>>, <<121,191>>, <<299,1043>>, <<885,100>>, <<659,559>>,
    <<157,558>>, <<850,522>>, <<751,238>>, <<230,788>>, <<234,373>>, <<573,352>>, <<499,1025>>,
    <<599,81>>, <<611,684>>, <<966,25>>, <<229,762>>, <<1036,54>>, <<884,491>>, <<428,911>>,
    <<69,832>>, <<1029,742>>, <<16,778>>, <<584,838>>, <<829,989>>, <<25,349>>, <<590,387>>,
    <<842,1000>>, <<405,32>>, <<172,1024>>, <<420,605>>, <<691,546>>, <<662,717>>, <<798,262>>,
    <<843,185>>, <<761,440>>, <<278,233>>, <<195,524>>, <<707,274>>, <<53,657>>, <<103,1022>>,
    <<444,176>>, <<118,606>>, <<1039,712>>, <<302,516>>, <<953,643>>, <<750,175>>, <<307,689>>,
    <<296,879>>, <<725,865>>, <<720,1023>>, <<532,829>>, <<993,667>>, <<94,439>>, <<384,550>>,
    <<44,745>>, <<393,991>>, <<43,547>>, <<865,571>>, <<142,624>>, <<410,995>>, <<372,856>>,
    <<51,241>>, <<382,835>>, <<780,145>>, <<580,338>>, <<880,810>>, <<366,156>>, <<676,738>>,
    <<914,638>>, <<525,85>>, <<104,1001>>, <<418,3>>, <<280,730>>, <<713,836>>, <<193,599>>,
    <<533,766>>, <<563,356>>, <<956,175>>, <<652,375>>, <<303,613>>, <<479,769>>, <<1018,549>>,
    <<903,514>>, <<285,130>>, <<84,497>>, <<141,131>>, <<630,4>>, <<857,465>>, <<145,871>>,
    <<908,83>>, <<327,764>>, <<224,757>>, <<328,403>>, <<67,674>>, <<503,675>>, <<217,450>>,
    <<779,226>>, <<597,503>>, <<819,682>>, <<492,171>>, <<100,607>>, <<644,401>>, <<591,788>>,
    <<437,864>>, <<756,47>>, <<1038,987>>, <<152,543>>, <<674,381>>, <<184,618>>, <<569,697>>,
    <<593,353>>, <<373,526>>, <<83,913>>, <<682,59>>, <<464,633>>, <<349,66>>, <<642,576>>,
    <<534,398>>, <<848,787>>, <<841,1003>>, <<506,220>>, <<618,743>>, <<412,591>>, <<120,810>>,
    <<718,946>>, <<189,44>>, <<555,267>>
    >>

G2Table == <<
    <<1020,516,835,451>>, <<1011,846,780,1011>>, <<123,58,456,294>>, <<671,767,303,329>>,
    <<322,340,39,988>>, <<14,929,394,578>>, <<652,767,91,411>>, <<334,1010,590,782>>,
    <<965,220,221,574>>, <<708,648,93,734>>, <<815,987,681,161>>, <<1028,1035,121,242>>,
    <<844,123,474,943>>, <<970,537,408,78>>, <<472,86,440,719>>, <<329,663,776,597>>,
    <<653,947,167,857>>, <<126,932,342,889>>, <<25,1010,888,924>>, <<391,452,346,266>>,
    <<615,241,96,504>>, <<126,270,964,834>>, <<337,398,162,779>>, <<477,354,269,85>>,
    <<590,204,230,96>>, <<768,793,1009,212>>, <<263,26,525,335>>, <<677,1007,786,624>>,
    <<358,201,45,51>>, <<123,553,119,682>>, <<884,1012,521,382>>, <<408,303,969,300>>,
    <<81,2,645,666>>, <<486,441,823,286>>, <<1016,717,884,373>>, <<969,170,162,423>>,
    <<445,181,830,635>>, <<63,449,519,498>>, <<446,817,63,750>>, <<901,210,1022,367>>,
    <<113,92,968,124>>, <<848,320,90,253>>, <<96,766,1001,334>>, <<771,712,610,365>>,
    <<89,532,909,849>>, <<1050,752,446,9>>, <<907,612,706,249>>, <<39,927,292,712>>,
    <<274,620,167,317>>, <<579,134,927,771>>, <<404,555,110,334>>, <<1023,849,537,192>>,
    <<977,133,941,284>>, <<412,89,700,213>>, <<146,430,313,1002>>, <<389,631,131,297>>,
    <<536,856,1010,740>>, <<619,483,118,827>>, <<901,331,632,38>>, <<549,262,1026,552>>,
    <<1014,970,65,534>>, <<177,73,74,888>>, <<565,776,1023,123>>, <<629,82,503,460>>,
    <<1040,22,1032,512>>, <<41,138,464,455>>, <<625,51,657,293>>, <<434,629,975,478>>,
    <<603,768,690,67>>, <<953,451,701,496>>, <<880,907,873,467>>, <<37,344,383,1035>>,
    <<417,65,272,1006>>, <<711,972,147,548>>, <<1027,818,395,881>>, <<606,311,991,730>>,
    <<383,145,687,803>>, <<545,642,167,1038>>, <<449,4,814,138>>, <<140,601,113,1017>>,
    <<717,35,932,52>>, <<653,236,527,604>>, <<40,206,697,182>>, <<796,805,205,191>>,
    <<794,462,29,909>>, <<594,790,661,997>>, <<910,639,551,42>>, <<506,2,415,344>>,
    <<437,565,365,289>>, <<983,959,593,658>>, <<734,511,981,977>>, <<692,694,810,871>>,
    <<297,1019,362,90>>, <<599,850,633,421>>, <<91,466,931,511>>, <<16,248,497,7>>,
    <<583,691,153,770>>, <<293,851,1032,893>>, <<944,570,594,812>>, <<741,436,86,169>>,
    <<149,297,334,53>>, <<22,163,713,316>>, <<463,71,641,234>>, <<778,600,615,901>>,
    <<502,37,569,603>>, <<928,995,242,514>>, <<171,93,1050,987>>, <<403,407,147,960>>,
    <<588,979,840,617>>, <<291,41,85,753>>, <<304,509,397,827>>, <<9,587,86,526>>,
    <<1039,974,231,916>>, <<155,327,180,809>>, <<613,544,898,412>>, <<50,769,585,538>>,
    <<325,963,178,639>>, <<407,604,25,148>>, <<735,749,482,202>>, <<373,490,1023,6>>,
    <<166,690,638,797>>, <<472,199,1032,274>>, <<640,878,1036,858>>, <<31,570,286,297>>,
    <<464,446,219,529>>, <<13,179,763,302>>, <<936,1034,767,200>>, <<346,761,411,315>>,
    <<837,19,803,862>>, <<798,847,402,911>>, <<458,552,964,793>>, <<458,552,87,258>>,
    <<798,847,649,140>>, <<837,19,248,189>>, <<346,761,640,736>>, <<936,1034,284,851>>,
    <<13,179,288,749>>, <<464,446,832,522>>, <<31,570,765,754>>, <<640,878,15,193>>,
    <<472,199,19,777>>, <<166,690,413,254>>, <<373,490,28,1045>>, <<735,749,569,849>>,
    <<407,604,1026,903>>, <<325,963,873,412>>, <<50,769,466,513>>, <<613,544,153,639>>,
    <<155,327,871,242>>, <<1039,974,820,135>>, <<9,587,965,525>>, <<304,509,654,224>>,
    <<291,41,966,298>>, <<588,979,211,434>>, <<403,407,904,91>>, <<171,93,1,64>>,
    <<928,995,809,537>>, <<502,37,482,448>>, <<778,600,436,150>>, <<463,71,410,817>>,
    <<22,163,338,735>>, <<149,297,717,998>>, <<741,436,965,882>>, <<944,570,457,239>>,
    <<293,851,19,158>>, <<583,691,898,281>>, <<16,248,554,1044>>, <<91,466,120,540>>,
    <<599,850,418,630>>, <<297,1019,689,961>>, <<692,694,241,180>>, <<734,511,70,74>>,
    <<983,959,458,393>>, <<437,565,686,762>>, <<506,2,636,707>>, <<910,639,500,1009>>,
    <<594,790,390,54>>, <<794,462,1022,142>>, <<796,805,846,860>>, <<40,206,354,869>>,
    <<653,236,524,447>>, <<717,35,119,999>>, <<140,601,938,34>>, <<449,4,237,913>>,
    <<545,642,884,13>>, <<383,145,364,248>>, <<606,311,60,321>>, <<1027,818,656,170>>,
    <<711,972,904,503>>, <<417,65,779,45>>, <<37,344,668,16>>, <<880,907,178,584>>,
    <<953,451,350,555>>, <<603,768,361,984>>, <<434,629,76,573>>, <<625,51,394,758>>,
    <<41,138,587,596>>, <<1040,22,19,539>>, <<629,82,548,591>>, <<565,776,28,928>>,
    <<177,73,977,163>>, <<1014,970,986,517>>, <<549,262,25,499>>, <<901,331,419,1013>>,
    <<619,483,933,224>>, <<536,856,41,311>>, <<389,631,920,754>>, <<146,430,738,49>>,
    <<412,89,351,838>>, <<977,133,110,767>>, <<1023,849,514,859>>, <<404,555,941,717>>,
    <<579,134,124,280>>, <<274,620,884,734>>, <<39,927,759,339>>, <<907,612,345,802>>,
    <<1050,752,605,1042>>, <<89,532,142,202>>, <<771,712,441,686>>, <<96,766,50,717>>,
    <<848,320,961,798>>, <<113,92,83,927>>, <<901,210,29,684>>, <<446,817,988,301>>,
    <<63,449,532,553>>, <<445,181,221,416>>, <<969,170,889,628>>, <<1016,717,167,678>>,
    <<486,441,228,765>>, <<81,2,406,385>>, <<408,303,82,751>>, <<884,1012,530,669>>,
    <<123,553,932,369>>, <<358,201,1006,1000>>, <<677,1007,265,427>>, <<263,26,526,716>>,
    <<768,793,42,839>>, <<590,204,821,955>>, <<477,354,782,966>>, <<337,398,889,272>>,
    <<126,270,87,217>>, <<615,241,955,547>>, <<391,452,705,785>>, <<25,1010,163,127>>,
    <<126,932,709,162>>, <<653,947,884,194>>, <<329,663,275,454>>, <<472,86,611,332>>,
    <<970,537,643,973>>, <<844,123,577,108>>, <<1028,1035,930,809>>, <<815,987,370,890>>,
    <<708,648,958,317>>, <<965,220,830,477>>, <<334,1010,461,269>>, <<652,767,960,640>>,
    <<14,929,657,473>>, <<322,340,1012,63>>, <<671,767,748,722>>, <<123,58,595,757>>,
    <<1011,846,271,40>>, <<1020,516,216,600>>
    >>

G1Identity == [x |-> 0, y |-> 0, infinity |-> TRUE]

G1Points ==
    [k \in 1..(FrModulus - 1) |->
        [x |-> FqToMont(G1Table[k][1]), y |-> FqToMont(G1Table[k][2]),
         infinity |-> FALSE]]

\* k * G1 generator, k any natural number
G1Mul(k) == IF k % FrModulus = 0 THEN G1Identity ELSE G1Points[k % FrModulus]

G2Identity ==
    [x |-> [c0 |-> 0, c1 |-> 0], y |-> [c0 |-> 0, c1 |-> 0], infinity |-> TRUE]

G2Points ==
    [k \in 1..(FrModulus - 1) |->
        [x |-> [c0 |-> FqToMont(G2Table[k][1]), c1 |-> FqToMont(G2Table[k][2])],
         y |-> [c0 |-> FqToMont(G2Table[k][3]), c1 |-> FqToMont(G2Table[k][4])],
         infinity |-> FALSE]]

G2Mul(k) == IF k % FrModulus = 0 THEN G2Identity ELSE G2Points[k % FrModulus]

\* Neg for Affine: x kept, y negated in the coordinate field
G2Neg(p) == [x |-> p.x, y |-> Fq2Neg(p.y), infinity |-> p.infinity]

(***************************************************************************)
(* rand_chacha::ChaCha20Rng: a counter-mode stream, block ctr of the       *)
(* stream keyed by the seed; UniformRand for the scalar field.             *)
(***************************************************************************)
Block(key, ctr) ==
    LET a == (7 * ctr + key) % 1009
    IN  (a * a * a + 31 * a + key * (ctr % 4099)) % 65521

seed_from_u64(seed) == [key |-> seed, ctr |-> 0]

\* the j-th (from 0) scalar drawn from generator g
FrRand(g, j) == FrToMont(Block(g.key, g.ctr + j) % FrModulus)

\* a non-identity group element drawn from g, as its discrete logarithm
GroupRand(g, j) == 1 + (Block(g.key, g.ctr + j) % (FrModulus - 1))

Advance(g, k) == [g EXCEPT !.ctr = @ + k]

(***************************************************************************)
(* jolt_core, from its contract.                                           *)
(***************************************************************************)
RECURSIVE Log2(_)
Log2(k) == IF k <= 1 THEN 0 ELSE 1 + Log2(k \div 2)

IsPow2(k) == k >= 1 /\ Pow2(Log2(k)) = k

RECURSIVE FrPow(_, _)
\* x^e, x a Montgomery residue
FrPow(x, e) ==
    IF e = 0 THEN FrToMont(1)
    ELSE Bind(FrPow(x, e \div 2),
              LAMBDA h : IF e % 2 = 0 THEN FrMul(h, h) ELSE FrMul(FrMul(h, h), x))

\* Setup(seed, n): the toxic-waste scalar and the two generators are drawn
\* from the generator; the SRS holds the powers of tau up to size.
HyperKZGSRS_setup(g, size) ==
    Bind(FrRand(g, 0), LAMBDA tau :
        [size   |-> size,
         g1     |-> GroupRand(g, 1),
         g2     |-> GroupRand(g, 2),
         tau    |-> tau,
         powers |-> [i \in 1..size |-> FrPow(tau, i - 1)]])

SetupOk(size) == IsPow2(size)

TrimOk(s, size) == size <= s.size

\* Trim(SRS, n) -> (ProverKey, VerifierKey)
HyperKZGSRS_trim(s, size) ==
    << [size |-> size, g1 |-> s.g1, powers |-> SubSeq(s.powers, 1, size)],
       [kzg_vk |-> [g1      |-> G1Mul(s.g1),
                    g2      |-> G2Mul(s.g2),
                    beta_g2 |-> G2Mul(s.g2 * Fr_into_bigint(s.tau))]] >>

\* DensePolynomial::new: the evaluation table of a multilinear polynomial
DensePolynomial_new(Z) == [num_vars |-> Log2(Len(Z)), len |-> Len(Z), Z |-> Z]

RECURSIVE EvalFold(_, _, _)
\* the table folded on the variables pt[j], pt[j+1], ..., most significant first
EvalFold(Z, pt, j) ==
    Bind(Z, LAMBDA T :
        IF Len(T) = 1 THEN T[1]
        ELSE LET half == Len(T) \div 2
             IN  EvalFold([t \in 1..half |->
                              FrAdd(T[t], FrMul(pt[j], FrSub(T[t + half], T[t])))],
                          pt, j + 1))

\* DensePolynomial::evaluate: polynomial(point)
evaluate(poly, pt) == EvalFold(poly.Z, pt, 1)

RECURSIVE DotRange(_, _, _, _)
\* sum of Z[i] * P[i] for i in lo..hi
DotRange(Z, P, lo, hi) ==
    IF lo = hi THEN FrMul(Z[lo], P[lo])
    ELSE LET mid == (lo + hi) \div 2
         IN  FrAdd(DotRange(Z, P, lo, mid), DotRange(Z, P, mid + 1, hi))

CommitOk(key, poly) == poly.len = key.size

\* Commit(ProverKey, polynomial) -> Result<Commitment>: poly(tau) * g1
HyperKZG_commit(key, poly) ==
    IF CommitOk(key, poly)
    THEN [ok |-> TRUE,
          value |-> << G1Mul(key.g1 * Fr_into_bigint(DotRange(poly.Z, key.powers, 1, poly.len))) >>]
    ELSE [ok |-> FALSE, value |-> << G1Identity >>]

(***************************************************************************)
(* ProofTranscript: an append-only digest, initialised with a label.       *)
(***************************************************************************)
Mix(state, v, round) == (31 * state + 17 * v + round + 7) % 65521

RECURSIVE MixAll(_, _, _)
MixAll(state, vs, k) ==
    IF k > Len(vs) THEN state ELSE MixAll(Mix(state, vs[k], k), vs, k + 1)

ProofTranscript_new(label) == [state |-> MixAll(0, label, 1), n_rounds |-> 0]

append_scalars(t, xs) ==
    [state |-> MixAll(t.state, xs, 1), n_rounds |-> t.n_rounds + 1]

challenge_scalar(t) == FrToMont(Mix(t.state, 1, t.n_rounds) % FrModulus)

after_challenge(t) ==
    [state |-> Mix(t.state, 2, t.n_rounds), n_rounds |-> t.n_rounds + 1]

(***************************************************************************)
(* BatchProve(keys, polynomials, point, claims, batchingStrategy,          *)
(* transcript) -> BatchOpeningProof.  polynomials and claims must be       *)
(* equal-length and non-empty, point must have log2(n) elements, every     *)
(* polynomial n evaluations.  The proof is a function of the keys, the     *)
(* inputs and the transcript; lens = <<points in com, points in w>> is     *)
(* the collaborator's choice for the batching strategy.                    *)
(***************************************************************************)
BatchProveOk(keys, ps, pt, claims) ==
    /\ Len(ps) = Len(claims)
    /\ Len(ps) > 0
    /\ Len(pt) = Log2(keys[1].size)
    /\ \A k \in 1..Len(ps) : ps[k].len = keys[1].size

HyperKZG_batch_prove(keys, ps, pt, claims, batch_type, t, lens) ==
    LET t1    == append_scalars(t, claims)
        gamma == challenge_scalar(t1)
        t2    == after_challenge(t1)
        \* each polynomial opened at a challenge-derived position
        pos   == 1 + (Fr_into_bigint(gamma) % keys[1].size)
        opens == [k \in 1..Len(ps) |-> ps[k].Z[pos]]
    IN  Bind(append_scalars(append_scalars(t2, opens), pt), LAMBDA t3 :
        LET r  == challenge_scalar(t3)
            t4 == after_challenge(t3)
            u  == <<r, FrSub(0, r), FrMul(r, r)>>
        IN  Bind(Mix(t4.state, keys[1].g1, IF batch_type = "Big" THEN 1 ELSE 2),
                 LAMBDA base :
            [proof |->
               [com |-> [j \in 1..lens[1] |-> G1Mul(1 + Mix(base, j, 1))],
                w   |-> [j \in 1..lens[2] |-> G1Mul(1 + Mix(base, j, 2))],
                v   |-> [i \in 1..3 |->
                           [j \in 1..Len(pt) |->
                               FrAdd(FrMul(u[i], pt[j]),
                                     FrToMont(Mix(base, j, 2 + i) % FrModulus))]]],
             transcript |-> append_scalars(t4, <<base>>)]))

(***************************************************************************)
(* alloy_sol_types: the three sol! structs and the ABI encoding of a       *)
(* value of a struct type.  A type is "uint256", "uint256[]" or a struct   *)
(* with its fields in declaration order; the encoding is a sequence of     *)
(* words.                                                                  *)
(***************************************************************************)
Uint256 == [kind |-> "uint256"]

Uint256Array == [kind |-> "uint256[]"]

VK ==
    [kind |-> "struct",
     fields |-> << [name |-> "VK_g1_x",    ty |-> Uint256],
                   [name |-> "VK_g1_y",    ty |-> Uint256],
                   [name |-> "VK_g2",      ty |-> Uint256Array],
                   [name |-> "VK_beta_g2", ty |-> Uint256Array] >>]

HyperKZGProofSol ==
    [kind |-> "struct",
     fields |-> << [name |-> "com",    ty |-> Uint256Array],
                   [name |-> "w",      ty |-> Uint256Array],
                   [name |-> "v_ypos", ty |-> Uint256Array],
                   [name |-> "v_yneg", ty |-> Uint256Array],
                   [name |-> "v_y",    ty |-> Uint256Array] >>]

\* (variant: the fields declared in the order the value is built, proof first)
BatchedExampleAsBuilt ==
    [kind |-> "struct",
     fields |-> << [name |-> "proof",       ty |-> HyperKZGProofSol],
                   [name |-> "vk",          ty |-> VK],
                   [name |-> "commitments", ty |-> Uint256Array],
                   [name |-> "point",       ty |-> Uint256Array],
                   [name |-> "claims",      ty |-> Uint256Array] >>]

BatchedExample ==
    [kind |-> "struct",
     fields |-> << [name |-> "vk",          ty |-> VK],
                   [name |-> "proof",       ty |-> HyperKZGProofSol],
                   [name |-> "commitments", ty |-> Uint256Array],
                   [name |-> "point",       ty |-> Uint256Array],
                   [name |-> "claims",      ty |-> Uint256Array] >>]

RECURSIVE IsDynamic(_)
IsDynamic(ty) ==
    CASE ty.kind = "uint256"   -> FALSE
      [] ty.kind = "uint256[]" -> TRUE
      [] ty.kind = "struct"    ->
            \E i \in 1..Len(ty.fields) : IsDynamic(ty.fields[i].ty)

RECURSIVE HeadWords(_)
\* the words a value of the type takes in the head of the enclosing tuple
HeadWords(ty) ==
    IF IsDynamic(ty) THEN 1
    ELSE IF ty.kind = "struct"
         THEN LET RECURSIVE Sum(_)
                  Sum(i) == IF i = 0 THEN 0
                            ELSE Sum(i - 1) + HeadWords(ty.fields[i].ty)
              IN  Sum(Len(ty.fields))
         ELSE 1

RECURSIVE EncValue(_, _)
RECURSIVE EncFields(_, _, _, _)
\* the encoding of the fields i.. of a struct value: [head, tail], where
\* tailAt is the word offset, from the start of the struct's encoding, at
\* which the next tail begins
EncFields(ty, val, i, tailAt) ==
    IF i > Len(ty.fields) THEN [head |-> <<>>, tail |-> <<>>]
    ELSE LET f == ty.fields[i]
         IN  Bind(EncValue(f.ty, val[f.name]), LAMBDA body :
             IF IsDynamic(f.ty)
             THEN Bind(EncFields(ty, val, i + 1, tailAt + Len(body)), LAMBDA rest :
                       [head |-> <<U256FromInt(WordBytes * tailAt)>> \o rest.head,
                        tail |-> body \o rest.tail])
             ELSE Bind(EncFields(ty, val, i + 1, tailAt), LAMBDA rest :
                       [head |-> body \o rest.head, tail |-> rest.tail]))

EncValue(ty, val) ==
    CASE ty.kind = "uint256"   -> <<val>>
      [] ty.kind = "uint256[]" ->
            <<U256FromInt(Len(val))>> \o [k \in 1..Len(val) |-> val[k]]
      [] ty.kind = "struct"    ->
            LET RECURSIVE Sum(_)
                Sum(i) == IF i = 0 THEN 0
                          ELSE Sum(i - 1) + HeadWords(ty.fields[i].ty)
            IN  Bind(EncFields(ty, val, 1, Sum(Len(ty.fields))),
                     LAMBDA e : e.head \o e.tail)

\* (variant: the value's fields as the sequence, with no word leading to them)
abi_encode_params_words(ty, val) == EncValue(ty, val)

\* SolType::abi_encode: the value as a one-element sequence
abi_encode_words(ty, val) ==
    IF IsDynamic(ty) THEN <<U256FromInt(WordBytes)>> \o EncValue(ty, val)
    ELSE EncValue(ty, val)

abi_encode(ty, val) ==
    Bind(abi_encode_words(ty, val), LAMBDA ws :
        [k \in 1..(WordBytes * Len(ws)) |->
            ws[1 + ((k - 1) \div WordBytes)][1 + ((k - 1) % WordBytes)]])

\* hex::encode: two lowercase digits per byte, high nibble first
HexDigits == <<"0", "1", "2", "3", "4", "5", "6", "7",
               "8", "9", "a", "b", "c", "d", "e", "f">>

hex_encode(bytes) ==
    Bind(bytes, LAMBDA data :
        [k \in 1..(2 * Len(data)) |->
            LET b == data[1 + ((k - 1) \div 2)]
            IN  IF k % 2 = 1 THEN HexDigits[1 + (b \div 16)]
                ELSE HexDigits[1 + (b % 16)]])

(***************************************************************************)
(* The conversion main() applies to every field element it encodes:        *)
(*   U256::from_be_slice(&x.into_bigint().to_bytes_be())                   *)
(***************************************************************************)
FqWord(x) == from_be_slice(to_bytes_be(Fq_into_bigint(x)))

FrWord(x) == from_be_slice(to_bytes_be(Fr_into_bigint(x)))

(***************************************************************************)
(* State.  frame[r] holds the locals of main() of process r, under the     *)
(* names of the source; stdout[r] what the process has printed; calls[r]   *)
(* the calls it has made into jolt_core, with their arguments; cause[r]    *)
(* why it panicked.  faulty says whether the collaborator may fail a call  *)
(* whose preconditions hold; foldLens is the collaborator's choice of the  *)
(* proof's com and w lengths, <<0, 0>> until BatchProve has made it.       *)
(***************************************************************************)
VARIABLES pc, frame, stdout, calls, cause, faulty, foldLens

vars == <<pc, frame, stdout, calls, cause, faulty, foldLens>>

NoTranscript == [state |-> 0, n_rounds |-> 0]

NoProof == [com |-> <<>>, w |-> <<>>, v |-> <<>>]

NoG2 == G2Identity

NoVkSol == [VK_g1_x |-> <<>>, VK_g1_y |-> <<>>, VK_g2 |-> <<>>, VK_beta_g2 |-> <<>>]

NoProofSol == [com |-> <<>>, w |-> <<>>, v_ypos |-> <<>>, v_yneg |-> <<>>, v_y |-> <<>>]

NoExample ==
    [vk |-> NoVkSol, proof |-> NoProofSol, commitments |-> <<>>,
     point |-> <<>>, claims |-> <<>>]

\* main() at entry, after let ell, let mut rng, let n
InitFrame(r) ==
    [rng |-> seed_from_u64(RngSeed(r)),
     it  |-> 0,
     srs |-> [size |-> 0, g1 |-> 0, g2 |-> 0, tau |-> 0, powers |-> <<>>],
     pk  |-> [size |-> 0, g1 |-> 0, powers |-> <<>>],
     vk  |-> [kzg_vk |-> [g1 |-> G1Identity, g2 |-> NoG2, beta_g2 |-> NoG2]],
     point |-> <<>>, polys |-> <<>>, evals |-> <<>>, commitments |-> <<>>,
     borrowed |-> <<>>,
     prover_transcript |-> NoTranscript,
     proof |-> NoProof,
     g1 |-> G1Identity, g2 |-> NoG2, g2_sol |-> <<>>,
     g2_beta |-> NoG2, g2_beta_sol |-> <<>>,
     vk_sol |-> NoVkSol,
     com |-> <<>>, w |-> <<>>,
     ypos_scalar |-> <<>>, yneg_scalar |-> <<>>, y_scalar |-> <<>>,
     v_ypos |-> <<>>, v_yneg |-> <<>>, v_y |-> <<>>,
     proof_sol |-> NoProofSol,
     encoded_commitments |-> <<>>, point_encoded |-> <<>>,
     evals_encoded |-> <<>>,
     example |-> NoExample]

InitProcs(procs, f) ==
    /\ pc = [r \in procs |-> "setup"]
    /\ frame = [r \in procs |-> InitFrame(r)]
    /\ stdout = [r \in procs |-> <<>>]
    /\ calls = [r \in procs |-> <<>>]
    /\ cause = [r \in procs |-> "none"]
    /\ faulty = f
    /\ foldLens = <<0, 0>>

Init == InitProcs({1}, FALSE)

\* whether the collaborator fails this call although its preconditions hold
FailChoices == IF faulty THEN BOOLEAN ELSE {FALSE}

Goto(r, label) == pc' = [pc EXCEPT ![r] = label]

\* (variant: the failure noted and the step tried again)
PanicRetry(r, why) ==
    /\ pc' = pc
    /\ cause' = [cause EXCEPT ![r] = why]

\* a panic: the process ends where it stands
Panic(r, why) ==
    /\ pc' = [pc EXCEPT ![r] = "panicked"]
    /\ cause' = [cause EXCEPT ![r] = why]

Called(r, c) == calls' = [calls EXCEPT ![r] = Append(@, c)]

(***************************************************************************)
(* line 26: let srs = HyperKZGSRS::setup(&mut rng, n)                      *)
(***************************************************************************)
Setup(r) ==
    /\ pc[r] = "setup"
    /\ \E fail \in FailChoices :
         LET ok == SetupOk(n) /\ ~fail
         IN  /\ Called(r, [op |-> "setup", size |-> n, ok |-> ok])
             /\ IF ok
                THEN /\ frame' = [frame EXCEPT
                                    ![r].srs = HyperKZGSRS_setup(frame[r].rng, n),
                                    ![r].rng = Advance(frame[r].rng, 3)]
                     /\ Goto(r, "trim")
                     /\ UNCHANGED cause
                ELSE /\ Panic(r, IF SetupOk(n) THEN "fault" ELSE "shape")
                     /\ UNCHANGED frame
    /\ UNCHANGED <<stdout, faulty, foldLens>>

(***************************************************************************)
(* line 27: let (pk, vk) = srs.trim(n)                                     *)
(***************************************************************************)
Trim(r) ==
    /\ pc[r] = "trim"
    /\ \E fail \in FailChoices, kv \in {HyperKZGSRS_trim(frame[r].srs, n)} :
         LET ok == TrimOk(frame[r].srs, n) /\ ~fail
         IN  /\ Called(r, [op |-> "trim", size |-> n, ok |-> ok])
             /\ IF ok
                THEN /\ frame' = [frame EXCEPT ![r].pk = kv[1], ![r].vk = kv[2]]
                     /\ Goto(r, "point")
                     /\ UNCHANGED cause
                ELSE /\ Panic(r, IF TrimOk(frame[r].srs, n) THEN "fault" ELSE "shape")
                     /\ UNCHANGED frame
    /\ UNCHANGED <<stdout, faulty, foldLens>>

(***************************************************************************)
(* lines 29-31: the evaluation point, ell scalars drawn from rng           *)
(***************************************************************************)
DrawPoint(r) ==
    /\ pc[r] = "point"
    /\ frame' = [frame EXCEPT
                   ![r].point = [j \in 1..ell |-> FrRand(frame[r].rng, j - 1)],
                   ![r].rng = Advance(frame[r].rng, ell),
                   ![r].it = 0]
    /\ Goto(r, "commit_loop")
    /\ UNCHANGED <<stdout, calls, cause, faulty, foldLens>>

(***************************************************************************)
(* lines 33-47: for _ in 0..8 { poly; eval; commit(..).unwrap(); push }    *)
(***************************************************************************)
\* (variant: one evaluation short, 0..n-1)
NewPolyShort(g) == DensePolynomial_new([i \in 1..(n - 1) |-> FrRand(g, i - 1)])

NewPoly(g) == DensePolynomial_new([i \in 1..n |-> FrRand(g, i - 1)])

\* (variant: the commitment put at the front of its list)
PushCommitFront(f, poly, eval, c) ==
    [f EXCEPT !.commitments = <<c>> \o @,
              !.polys = Append(@, poly),
              !.evals = Append(@, eval),
              !.rng = Advance(@, n),
              !.it = @ + 1]

PushCommit(f, poly, eval, c) ==
    [f EXCEPT !.commitments = Append(@, c),
              !.polys = Append(@, poly),
              !.evals = Append(@, eval),
              !.rng = Advance(@, n),
              !.it = @ + 1]

CommitLoop(r) ==
    /\ pc[r] = "commit_loop"
    /\ IF frame[r].it < NumPolys
       THEN \E fail \in FailChoices, poly \in {NewPoly(frame[r].rng)} :
            \E eval \in {evaluate(poly, frame[r].point)},
               res \in {HyperKZG_commit(frame[r].pk, poly)} :
              LET ok == res.ok /\ ~fail
              IN  /\ calls' = [calls EXCEPT ![r] =
                                @ \o << [op |-> "evaluate", len |-> poly.len, ok |-> TRUE,
                                         point |-> frame[r].point, value |-> eval],
                                        [op |-> "commit", len |-> poly.len, ok |-> ok,
                                         value |-> res.value] >>]
                  /\ IF ok
                     THEN /\ frame' = [frame EXCEPT
                                         ![r] = PushCommit(@, poly, eval, res.value)]
                          /\ UNCHANGED <<pc, cause>>
                     ELSE /\ Panic(r, IF res.ok THEN "fault" ELSE "shape")
                          /\ frame' = [frame EXCEPT ![r].rng = Advance(@, n)]
       ELSE /\ frame' = [frame EXCEPT ![r].it = 0]
            /\ Goto(r, "borrow_loop")
            /\ UNCHANGED <<calls, cause>>
    /\ UNCHANGED <<stdout, faulty, foldLens>>

(***************************************************************************)
(* lines 49-51: for poly in polys.iter() { borrowed.push(poly) }           *)
(* A reference to polys[k] is held as the index k.                         *)
(***************************************************************************)
BorrowPush(f) == [f EXCEPT !.borrowed = Append(@, f.it + 1), !.it = @ + 1]

BorrowLoop(r) ==
    /\ pc[r] = "borrow_loop"
    /\ IF frame[r].it < Len(frame[r].polys)
       THEN /\ frame' = [frame EXCEPT ![r] = BorrowPush(@)]
            /\ UNCHANGED pc
       ELSE /\ frame' = [frame EXCEPT ![r].it = 0]
            /\ Goto(r, "transcript")
    /\ UNCHANGED <<stdout, calls, cause, faulty, foldLens>>

(***************************************************************************)
(* line 54: let mut prover_transcript = ProofTranscript::new(b"TestEval")  *)
(***************************************************************************)
NewTranscript(r) ==
    /\ pc[r] = "transcript"
    /\ frame' = [frame EXCEPT
                   ![r].prover_transcript = ProofTranscript_new(TranscriptLabel(r))]
    /\ Called(r, [op |-> "transcript_new", label |-> TranscriptLabel(r), ok |-> TRUE])
    /\ Goto(r, "prove")
    /\ UNCHANGED <<stdout, cause, faulty, foldLens>>

(***************************************************************************)
(* lines 55-62: let proof = HyperKZG::batch_prove(&(pk, vk),               *)
(*     borrowed.as_slice(), &point, &evals, BatchType::Big,                *)
(*     &mut prover_transcript)                                             *)
(***************************************************************************)
Deref(f) == [k \in 1..Len(f.borrowed) |-> f.polys[f.borrowed[k]]]

\* (variant: the point absorbed into the transcript before the call)
ProveArgsTouched(r) ==
    [op |-> "batch_prove",
     keys |-> <<frame[r].pk, frame[r].vk>>,
     polys |-> Deref(frame[r]),
     point |-> frame[r].point,
     claims |-> frame[r].evals,
     batch_type |-> BatchType(r),
     transcript |-> append_scalars(frame[r].prover_transcript, frame[r].point),
     ok |-> TRUE]

ProveArgs(r) ==
    [op |-> "batch_prove",
     keys |-> <<frame[r].pk, frame[r].vk>>,
     polys |-> Deref(frame[r]),
     point |-> frame[r].point,
     claims |-> frame[r].evals,
     batch_type |-> BatchType(r),
     transcript |-> frame[r].prover_transcript,
     ok |-> TRUE]

FoldChoices ==
    IF foldLens = <<0, 0>> THEN (1..MaxFold) \X (1..MaxFold) ELSE {foldLens}

BatchProve(r) ==
    /\ pc[r] = "prove"
    /\ \E fail \in FailChoices, lens \in FoldChoices, a \in {ProveArgs(r)} :
       \E res \in {HyperKZG_batch_prove(a.keys, a.polys, a.point, a.claims,
                                        a.batch_type, a.transcript, lens)} :
         LET pre == BatchProveOk(a.keys, a.polys, a.point, a.claims)
             ok  == pre /\ ~fail
         IN  /\ Called(r, [a EXCEPT !.keys = <<a.keys[1].size>>, !.ok = ok])
             /\ IF ok
                THEN /\ frame' = [frame EXCEPT
                                    ![r].proof = res.proof,
                                    ![r].prover_transcript = res.transcript]
                     /\ foldLens' = lens
                     /\ Goto(r, "g2_sol")
                     /\ UNCHANGED cause
                ELSE /\ Panic(r, IF pre THEN "fault" ELSE "shape")
                     /\ UNCHANGED <<frame, foldLens>>
    /\ UNCHANGED <<stdout, faulty>>

(***************************************************************************)
(* lines 85-93: let g1 = vk.kzg_vk.g1; let g2 = -vk.kzg_vk.g2; g2_sol      *)
(***************************************************************************)
G2Words(p) == <<FqWord(p.x.c0), FqWord(p.x.c1), FqWord(p.y.c0), FqWord(p.y.c1)>>

\* (variant: the generator taken as it is)
NotNegatedG2(key) == key.kzg_vk.g2

NegatedG2(key) == G2Neg(key.kzg_vk.g2)

G2Sol(r) ==
    /\ pc[r] = "g2_sol"
    /\ \E g \in {NegatedG2(frame[r].vk)} :
           frame' = [frame EXCEPT ![r].g1 = frame[r].vk.kzg_vk.g1,
                                  ![r].g2 = g,
                                  ![r].g2_sol = G2Words(g)]
    /\ Goto(r, "g2_beta_sol")
    /\ UNCHANGED <<stdout, calls, cause, faulty, foldLens>>

(***************************************************************************)
(* lines 94-100: let g2_beta = vk.kzg_vk.beta_g2; g2_beta_sol              *)
(***************************************************************************)
BetaG2(key) == key.kzg_vk.beta_g2

G2BetaSol(r) ==
    /\ pc[r] = "g2_beta_sol"
    /\ \E g \in {BetaG2(frame[r].vk)} :
           frame' = [frame EXCEPT ![r].g2_beta = g,
                                  ![r].g2_beta_sol = G2Words(g)]
    /\ Goto(r, "vk_sol")
    /\ UNCHANGED <<stdout, calls, cause, faulty, foldLens>>

(***************************************************************************)
(* lines 102-107: let vk_sol = VK { VK_g1_x, VK_g1_y, VK_g2, VK_beta_g2 }  *)
(***************************************************************************)
MakeVkSol(f) ==
    [VK_g1_x    |-> FqWord(f.g1.x),
     VK_g1_y    |-> FqWord(f.g1.y),
     VK_g2      |-> f.g2_sol,
     VK_beta_g2 |-> f.g2_beta_sol]

VkSol(r) ==
    /\ pc[r] = "vk_sol"
    /\ frame' = [frame EXCEPT ![r].vk_sol = MakeVkSol(frame[r])]
    /\ Goto(r, "proof_scalars")
    /\ UNCHANGED <<stdout, calls, cause, faulty, foldLens>>

(***************************************************************************)
(* lines 109-127: com, w empty; proof.v[0], v[1], v[2] cloned and mapped   *)
(* to words.  Indexing proof.v past its end panics.                        *)
(***************************************************************************)
ScalarWords(xs) == [k \in 1..Len(xs) |-> FrWord(xs[k])]

ProofScalars(r) ==
    /\ pc[r] = "proof_scalars"
    /\ IF Len(frame[r].proof.v) >= 3
       THEN /\ frame' = [frame EXCEPT
                           ![r].com = <<>>,
                           ![r].w = <<>>,
                           ![r].ypos_scalar = frame[r].proof.v[1],
                           ![r].yneg_scalar = frame[r].proof.v[2],
                           ![r].y_scalar = frame[r].proof.v[3],
                           ![r].v_ypos = ScalarWords(frame[r].proof.v[1]),
                           ![r].v_yneg = ScalarWords(frame[r].proof.v[2]),
                           ![r].v_y = ScalarWords(frame[r].proof.v[3]),
                           ![r].it = 0]
            /\ Goto(r, "com_loop")
            /\ UNCHANGED cause
       ELSE /\ Panic(r, "index")
            /\ UNCHANGED frame
    /\ UNCHANGED <<stdout, calls, faulty, foldLens>>

(***************************************************************************)
(* lines 129-132: for point in proof.com.iter() { com.push(x); com.push(y) }*)
(***************************************************************************)
\* (variant: the y coordinate left out)
PushXOnly(words, p) == Append(words, FqWord(p.x))

PushXY(words, p) == Append(Append(words, FqWord(p.x)), FqWord(p.y))

ComLoop(r) ==
    /\ pc[r] = "com_loop"
    /\ IF frame[r].it < Len(frame[r].proof.com)
       THEN /\ frame' = [frame EXCEPT
                           ![r].com = PushXY(@, frame[r].proof.com[frame[r].it + 1]),
                           ![r].it = @ + 1]
            /\ UNCHANGED pc
       ELSE /\ frame' = [frame EXCEPT ![r].it = 0]
            /\ Goto(r, "w_loop")
    /\ UNCHANGED <<stdout, calls, cause, faulty, foldLens>>

(***************************************************************************)
(* lines 134-137: for point in proof.w.iter() { w.push(x); w.push(y) }     *)
(***************************************************************************)
WLoop(r) ==
    /\ pc[r] = "w_loop"
    /\ IF frame[r].it < Len(frame[r].proof.w)
       THEN /\ frame' = [frame EXCEPT
                           ![r].w = PushXY(@, frame[r].proof.w[frame[r].it + 1]),
                           ![r].it = @ + 1]
            /\ UNCHANGED pc
       ELSE /\ frame' = [frame EXCEPT ![r].it = 0]
            /\ Goto(r, "proof_sol")
    /\ UNCHANGED <<stdout, calls, cause, faulty, foldLens>>

(***************************************************************************)
(* lines 139-145: let proof_sol = HyperKZGProofSol { com, w, v_ypos, .. }  *)
(***************************************************************************)
MakeProofSol(f) ==
    [com |-> f.com, w |-> f.w, v_ypos |-> f.v_ypos, v_yneg |-> f.v_yneg,
     v_y |-> f.v_y]

ProofSol(r) ==
    /\ pc[r] = "proof_sol"
    /\ frame' = [frame EXCEPT ![r].proof_sol = MakeProofSol(frame[r]),
                              ![r].encoded_commitments = <<>>,
                              ![r].it = 0]
    /\ Goto(r, "commitments_loop")
    /\ UNCHANGED <<stdout, calls, cause, faulty, foldLens>>

(***************************************************************************)
(* lines 147-153: for point in commitments.iter() { push x; push y }       *)
(* point.0 is the commitment's G1 point.                                   *)
(***************************************************************************)
CommitmentsLoop(r) ==
    /\ pc[r] = "commitments_loop"
    /\ IF frame[r].it < Len(frame[r].commitments)
       THEN /\ frame' = [frame EXCEPT
                           ![r].encoded_commitments =
                               PushXY(@, frame[r].commitments[frame[r].it + 1][1]),
                           ![r].it = @ + 1]
            /\ UNCHANGED pc
       ELSE /\ frame' = [frame EXCEPT ![r].it = 0]
            /\ Goto(r, "point_encoded")
    /\ UNCHANGED <<stdout, calls, cause, faulty, foldLens>>

(***************************************************************************)
(* lines 155-158: let point_encoded = point.iter().map(..).collect()       *)
(***************************************************************************)
PointEncoded(r) ==
    /\ pc[r] = "point_encoded"
    /\ frame' = [frame EXCEPT ![r].point_encoded = ScalarWords(frame[r].point),
                              ![r].evals_encoded = <<>>,
                              ![r].it = 0]
    /\ Goto(r, "evals_loop")
    /\ UNCHANGED <<stdout, calls, cause, faulty, foldLens>>

(***************************************************************************)
(* lines 159-162: for eval in evals.iter() { evals_encoded.push(..) }      *)
(***************************************************************************)
EvalsLoop(r) ==
    /\ pc[r] = "evals_loop"
    /\ IF frame[r].it < Len(frame[r].evals)
       THEN /\ frame' = [frame EXCEPT
                           ![r].evals_encoded =
                               Append(@, FrWord(frame[r].evals[frame[r].it + 1])),
                           ![r].it = @ + 1]
            /\ UNCHANGED pc
       ELSE /\ frame' = [frame EXCEPT ![r].it = 0]
            /\ Goto(r, "example")
    /\ UNCHANGED <<stdout, calls, cause, faulty, foldLens>>

(***************************************************************************)
(* lines 164-170: let example = BatchedExample { proof, vk, commitments,   *)
(* point, claims }                                                         *)
(***************************************************************************)
MakeExample(f) ==
    [proof       |-> f.proof_sol,
     vk          |-> f.vk_sol,
     commitments |-> f.encoded_commitments,
     point       |-> f.point_encoded,
     claims      |-> f.evals_encoded]

Example(r) ==
    /\ pc[r] = "example"
    /\ frame' = [frame EXCEPT ![r].example = MakeExample(frame[r])]
    /\ Goto(r, "print")
    /\ UNCHANGED <<stdout, calls, cause, faulty, foldLens>>

(***************************************************************************)
(* line 172: print!("{}", hex::encode(BatchedExample::abi_encode(&example)))*)
(***************************************************************************)
Printed(f) == hex_encode(abi_encode(BatchedExample, f.example))

PrintHex(r) ==
    /\ pc[r] = "print"
    /\ stdout' = [stdout EXCEPT ![r] = @ \o Printed(frame[r])]
    /\ Goto(r, "done")
    /\ UNCHANGED <<frame, calls, cause, faulty, foldLens>>

Terminated(r) == pc[r] \in {"done", "panicked"}

(***************************************************************************)
(* The processes are runs of the same program that share nothing; they are *)
(* run one after the other, in the order of their numbers.                 *)
(***************************************************************************)
Runnable == {r \in DOMAIN pc : \A q \in DOMAIN pc : q < r => Terminated(q)}

Next ==
    \/ \E r \in Runnable : Setup(r)
    \/ \E r \in Runnable : Trim(r)
    \/ \E r \in Runnable : DrawPoint(r)
    \/ \E r \in Runnable : CommitLoop(r)
    \/ \E r \in Runnable : BorrowLoop(r)
    \/ \E r \in Runnable : NewTranscript(r)
    \/ \E r \in Runnable : BatchProve(r)
    \/ \E r \in Runnable : G2Sol(r)
    \/ \E r \in Runnable : G2BetaSol(r)
    \/ \E r \in Runnable : VkSol(r)
    \/ \E r \in Runnable : ProofScalars(r)
    \/ \E r \in Runnable : ComLoop(r)
    \/ \E r \in Runnable : WLoop(r)
    \/ \E r \in Runnable : ProofSol(r)
    \/ \E r \in Runnable : CommitmentsLoop(r)
    \/ \E r \in Runnable : PointEncoded(r)
    \/ \E r \in Runnable : EvalsLoop(r)
    \/ \E r \in Runnable : Example(r)
    \/ \E r \in Runnable : PrintHex(r)

\* one run, the collaborator failing only when its preconditions fail
Spec == Init /\ [][Next]_vars

\* one run, every step taken in the end
LiveSpec == Init /\ [][Next]_vars /\ WF_vars(Next)

\* one run, the collaborator free to fail any call
FaultInit == InitProcs({1}, TRUE)

FaultSpec == FaultInit /\ [][Next]_vars

\* two independent runs of the program
PairInit == InitProcs({1, 2}, FALSE)

PairSpec == PairInit /\ [][Next]_vars

(***************************************************************************)
(* Reading the output back: the hex text as words, and the words as the    *)
(* external layout                                                         *)
(*   Example { verifierKey { g1, g2_negated, beta_g2 },                    *)
(*             proof { com, w, v_ypos, v_yneg, v_y },                      *)
(*             commitments, point, claims }                                *)
(* read by position, following the offsets found in the data.              *)
(***************************************************************************)
LowerHex == <<"0", "1", "2", "3", "4", "5", "6", "7",
              "8", "9", "a", "b", "c", "d", "e", "f">>

HexVal(ch) == IF \E d \in 1..16 : LowerHex[d] = ch
              THEN (CHOOSE d \in 1..16 : LowerHex[d] = ch) - 1
              ELSE -1

\* the integer a word stands for, -1 when it exceeds three bytes (every
\* value of the model is below 2^24)
WordVal(wd) ==
    IF \A k \in 1..(WordBytes - 3) : wd[k] = 0
    THEN 65536 * wd[WordBytes - 2] + 256 * wd[WordBytes - 1] + wd[WordBytes]
    ELSE -1

\* the words of a hex text, as integers
HexWords(h) ==
    [i \in 1..(Len(h) \div (2 * WordBytes)) |->
        WordVal([k \in 1..WordBytes |->
                    16 * HexVal(h[2 * (WordBytes * (i - 1) + k) - 1])
                       + HexVal(h[2 * (WordBytes * (i - 1) + k)])])]

\* word i (from 0) of the words W, -1 past the end
At(W, i) == IF i >= 0 /\ i < Len(W) THEN W[i + 1] ELSE -1

\* the word index an offset word at index i points to, from the base b
Target(W, b, i) == IF At(W, i) < 0 THEN -1 ELSE b + (At(W, i) \div WordBytes)

\* the array found at word index a (from 0): its length, then its elements
ArrAt(W, a) ==
    IF a >= 0 /\ At(W, a) >= 0 /\ a + At(W, a) < Len(W)
    THEN [k \in 1..At(W, a) |-> At(W, a + k)]
    ELSE <<-1>>

DecodeExample(W) ==
    LET S == Target(W, 0, 0)
        V == Target(W, S, S)
        P == Target(W, S, S + 1)
    IN  [verifierKey |->
            [g1         |-> <<At(W, V), At(W, V + 1)>>,
             g2_negated |-> ArrAt(W, Target(W, V, V + 2)),
             beta_g2    |-> ArrAt(W, Target(W, V, V + 3))],
         proof |->
            [com    |-> ArrAt(W, Target(W, P, P)),
             w      |-> ArrAt(W, Target(W, P, P + 1)),
             v_ypos |-> ArrAt(W, Target(W, P, P + 2)),
             v_yneg |-> ArrAt(W, Target(W, P, P + 3)),
             v_y    |-> ArrAt(W, Target(W, P, P + 4))],
         commitments |-> ArrAt(W, Target(W, S, S + 2)),
         point       |-> ArrAt(W, Target(W, S, S + 3)),
         claims      |-> ArrAt(W, Target(W, S, S + 4))]

Decoded(r) == DecodeExample(HexWords(stdout[r]))

\* canonical residues, found by search rather than by the Montgomery inverse
FqCanonTable ==
    [x \in 0..(FqModulus - 1) |->
        CHOOSE c \in 0..(FqModulus - 1) : (c * FqR) % FqModulus = x]

FrCanonTable ==
    [x \in 0..(FrModulus - 1) |->
        CHOOSE c \in 0..(FrModulus - 1) : (c * FrR) % FrModulus = x]

FqCanon(x) == FqCanonTable[x]

FrCanon(x) == FrCanonTable[x]

FrCanonAll(xs) == [k \in 1..Len(xs) |-> FrCanon(xs[k])]

\* G1 points as x, y, x, y, ...
FlatXY(ps) ==
    [k \in 1..(2 * Len(ps)) |->
        IF k % 2 = 1 THEN FqCanon(ps[(k + 1) \div 2].x)
        ELSE FqCanon(ps[k \div 2].y)]

\* a G2 point as x.c0, x.c1, y.c0, y.c1
FlatG2(p) == <<FqCanon(p.x.c0), FqCanon(p.x.c1), FqCanon(p.y.c0), FqCanon(p.y.c1)>>

\* the same with y replaced by -y, on canonical residues
FlatG2Negated(p) ==
    <<FqCanon(p.x.c0), FqCanon(p.x.c1),
      (FqModulus - FqCanon(p.y.c0)) % FqModulus,
      (FqModulus - FqCanon(p.y.c1)) % FqModulus>>

Procs == DOMAIN pc

(***************************************************************************)
(* C1  Determinism: two independent runs of the program, both seeding one  *)
(* generator with the constant and creating one transcript with the fixed  *)
(* label, end alike and with byte-identical hex output.                    *)
(***************************************************************************)
C1_Determinism ==
    \A r1 \in Procs, r2 \in Procs :
        Terminated(r1) /\ Terminated(r2)
            => pc[r1] = pc[r2] /\ stdout[r1] = stdout[r2]

C1_Witness ==
    /\ Procs = {1, 2}
    /\ pc[1] = "done" /\ pc[2] = "done"
    /\ stdout[1] # <<>> /\ stdout[1] = stdout[2]

(***************************************************************************)
(* C2  Layout: read by position against the external layout, the output    *)
(* holds the verifier key first (g1 as x, y; each G2 point as x.c0, x.c1,  *)
(* y.c0, y.c1), then the proof (com, w, v_ypos, v_yneg, v_y), then         *)
(* commitments, point and claims: the declaration order of the structs,    *)
(* not the order in which the value's fields are written.                  *)
(***************************************************************************)
C2_Layout ==
    \A r \in Procs :
        pc[r] = "done" =>
            LET d == Decoded(r)
                f == frame[r]
            IN  /\ d.verifierKey.g1 = <<FqCanon(f.vk.kzg_vk.g1.x), FqCanon(f.vk.kzg_vk.g1.y)>>
                /\ d.verifierKey.g2_negated = FlatG2(f.g2)
                /\ d.verifierKey.beta_g2 = FlatG2(f.vk.kzg_vk.beta_g2)
                /\ d.proof.com = FlatXY(f.proof.com)
                /\ d.proof.w = FlatXY(f.proof.w)
                /\ d.proof.v_ypos = FrCanonAll(f.proof.v[1])
                /\ d.proof.v_yneg = FrCanonAll(f.proof.v[2])
                /\ d.proof.v_y = FrCanonAll(f.proof.v[3])
                /\ d.commitments = FlatXY([k \in 1..Len(f.commitments) |-> f.commitments[k][1]])
                /\ d.point = FrCanonAll(f.point)
                /\ d.claims = FrCanonAll(f.evals)

C2_Witness ==
    /\ pc[1] = "done"
    /\ Len(Decoded(1).proof.com) = 2 * MaxFold
    /\ Decoded(1).proof.v_ypos # Decoded(1).proof.v_yneg
    /\ Decoded(1).verifierKey.g2_negated # Decoded(1).verifierKey.beta_g2

(***************************************************************************)
(* C3  Negation: the g2_negated of the output is the verifier key's raw g2 *)
(* with x unchanged and y replaced by -y; beta_g2 and g1 are the raw       *)
(* values; no other point of the output is negated.                        *)
(***************************************************************************)
C3_Negation ==
    \A r \in Procs :
        pc[r] = "done" =>
            LET d  == Decoded(r)
                kv == frame[r].vk.kzg_vk
            IN  /\ d.verifierKey.g2_negated = FlatG2Negated(kv.g2)
                /\ d.verifierKey.beta_g2 = FlatG2(kv.beta_g2)
                /\ d.verifierKey.g1 = <<FqCanon(kv.g1.x), FqCanon(kv.g1.y)>>
                /\ d.proof.com = FlatXY(frame[r].proof.com)
                /\ d.proof.w = FlatXY(frame[r].proof.w)
                /\ d.commitments =
                       FlatXY([k \in 1..Len(frame[r].commitments) |->
                                  frame[r].commitments[k][1]])

C3_Witness ==
    /\ pc[1] = "done"
    /\ Decoded(1).verifierKey.g2_negated # FlatG2(frame[1].vk.kzg_vk.g2)
    /\ Decoded(1).verifierKey.g2_negated[1] = FqCanon(frame[1].vk.kzg_vk.g2.x.c0)

(***************************************************************************)
(* C4  Lengths: in the value that is encoded, commitments has 2 * NumPolys *)
(* words, point ell words, claims NumPolys words, v_ypos, v_yneg and v_y   *)
(* ell words each, being proof.v[0], v[1], v[2] element for element, and   *)
(* com and w twice as many words as the proof's com and w have points; the *)
(* arrays read back from the output have the same lengths.                 *)
(***************************************************************************)
C4_Lengths ==
    \A r \in Procs :
        pc[r] \in {"print", "done"} =>
            LET e == frame[r].example
                p == frame[r].proof
            IN  /\ Len(e.commitments) = 2 * NumPolys
                /\ Len(e.point) = ell
                /\ Len(e.claims) = NumPolys
                /\ Len(e.proof.v_ypos) = ell
                /\ Len(e.proof.v_yneg) = ell
                /\ Len(e.proof.v_y) = ell
                /\ \A k \in 1..ell :
                      /\ WordVal(e.proof.v_ypos[k]) = FrCanon(p.v[1][k])
                      /\ WordVal(e.proof.v_yneg[k]) = FrCanon(p.v[2][k])
                      /\ WordVal(e.proof.v_y[k]) = FrCanon(p.v[3][k])
                /\ Len(e.proof.com) = 2 * Len(p.com)
                /\ Len(e.proof.w) = 2 * Len(p.w)
                /\ Len(p.com) = foldLens[1]
                /\ Len(p.w) = foldLens[2]
                /\ pc[r] = "done" =>
                      LET d == Decoded(r)
                      IN  /\ Len(d.commitments) = 2 * NumPolys
                          /\ Len(d.point) = ell
                          /\ Len(d.claims) = NumPolys
                          /\ Len(d.proof.v_ypos) = ell
                          /\ Len(d.proof.v_yneg) = ell
                          /\ Len(d.proof.v_y) = ell
                          /\ Len(d.proof.com) = 2 * foldLens[1]
                          /\ Len(d.proof.w) = 2 * foldLens[2]

C4_Witness ==
    /\ pc[1] = "done"
    /\ foldLens = <<MaxFold, 1>>
    /\ Len(Decoded(1).proof.com) > Len(Decoded(1).proof.w)

(***************************************************************************)
(* C5  Order alignment: when the commit loop is left, commitment i is      *)
(* Commit(pk, polynomial i) and claim i is polynomial i at the shared      *)
(* point, for each of the NumPolys polynomials; no later step changes the  *)
(* three lists or the point; BatchProve is handed polynomial i in place i, *)
(* with claim i in place i; in the output, words 2i and 2i+1 (from 0) of   *)
(* commitments are x and y of commitment i and word i of claims is claim i.*)
(***************************************************************************)
AfterCommitLoop(r) ==
    pc[r] \notin {"setup", "trim", "point", "commit_loop", "panicked"}

AlignedAtLoopExit(r) ==
    LET f == frame[r]
    IN  /\ Len(f.polys) = NumPolys
        /\ Len(f.evals) = NumPolys
        /\ Len(f.commitments) = NumPolys
        /\ \A i \in 1..NumPolys :
              /\ f.commitments[i] = HyperKZG_commit(f.pk, f.polys[i]).value
              /\ f.evals[i] = evaluate(f.polys[i], f.point)

AlignedInCall(r) ==
    \A k \in 1..Len(calls[r]) :
        calls[r][k].op = "batch_prove" =>
            /\ Len(calls[r][k].polys) = NumPolys
            /\ \A i \in 1..NumPolys : calls[r][k].polys[i] = frame[r].polys[i]
            /\ calls[r][k].claims = frame[r].evals
            /\ calls[r][k].point = frame[r].point

AlignedInOutput(r) ==
    LET d == Decoded(r)
        f == frame[r]
    IN  /\ Len(d.commitments) = 2 * NumPolys
        /\ Len(d.claims) = NumPolys
        /\ \A i \in 1..NumPolys :
              /\ d.commitments[2 * i - 1] = FqCanon(f.commitments[i][1].x)
              /\ d.commitments[2 * i] = FqCanon(f.commitments[i][1].y)
              /\ d.claims[i] = FrCanon(f.evals[i])

ListsKept(r) ==
    AfterCommitLoop(r) =>
        /\ frame'[r].polys = frame[r].polys
        /\ frame'[r].evals = frame[r].evals
        /\ frame'[r].commitments = frame[r].commitments
        /\ frame'[r].point = frame[r].point

\* C5: at the exit of the commit loop commitment i, claim i and polynomial i
\* belong together, so they do in the call of batch_prove and in the output,
\* and no later step changes the lists
C5_OrderAlignment ==
    /\ [](\A r \in Procs :
            /\ (pc[r] = "borrow_loop" /\ frame[r].it = 0) => AlignedAtLoopExit(r)
            /\ AfterCommitLoop(r) => AlignedInCall(r)
            /\ pc[r] = "done" => AlignedInOutput(r))
    /\ [][\A r \in Procs : ListsKept(r)]_vars

C5_Witness ==
    /\ pc[1] = "done"
    /\ \A i \in 1..NumPolys, j \in 1..NumPolys :
          i # j => /\ frame[1].commitments[i] # frame[1].commitments[j]
                   /\ frame[1].polys[i] # frame[1].polys[j]
    /\ frame[1].evals[1] # frame[1].evals[2]

(***************************************************************************)
(* C6  No partial output: a failed call into the collaborator (setup,      *)
(* trim, any commit, the batch proof) ends the run at once, with nothing   *)
(* printed and no call made after it; text is printed only by a run that   *)
(* has made every one of those calls with success, and it is then the      *)
(* whole encoding.                                                         *)
(***************************************************************************)
CountOp(r, op) == Cardinality({k \in 1..Len(calls[r]) : calls[r][k].op = op})

CountOk(r, op) ==
    Cardinality({k \in 1..Len(calls[r]) : calls[r][k].op = op /\ calls[r][k].ok})

\* C6: a failed setup, trim, commit or batch_prove ends the run at once, with
\* nothing printed and no call repeated; the output is empty or the complete
\* encoding, printed after every call has succeeded
C6_NoPartialOutput ==
    \A r \in Procs :
        /\ \A k \in 1..Len(calls[r]) :
              ~calls[r][k].ok => k = Len(calls[r]) /\ pc[r] = "panicked"
        /\ pc[r] = "panicked" => stdout[r] = <<>>
        /\ CountOp(r, "setup") <= 1
        /\ CountOp(r, "trim") <= 1
        /\ CountOp(r, "commit") <= NumPolys
        /\ CountOp(r, "batch_prove") <= 1
        /\ stdout[r] # <<>> =>
              /\ pc[r] = "done"
              /\ stdout[r] = Printed(frame[r])
              /\ CountOk(r, "setup") = 1
              /\ CountOk(r, "trim") = 1
              /\ CountOk(r, "commit") = NumPolys
              /\ CountOk(r, "batch_prove") = 1

C6_Witness ==
    /\ pc[1] = "panicked"
    /\ cause[1] = "fault"
    /\ Len(frame[1].commitments) > 0
    /\ Len(frame[1].commitments) < NumPolys
    /\ calls[1][Len(calls[1])].op = "commit"
    /\ stdout[1] = <<>>

(***************************************************************************)
(* C7  Transcript single use: a run creates at most one transcript, and    *)
(* only after NumPolys commitments; BatchProve is invoked at most once, as *)
(* the call right after that creation, with the transcript as it was       *)
(* created from the fixed label, over all NumPolys polynomials, the point, *)
(* the claims and the strategy Big; a finished run has done each exactly   *)
(* once; outside these two steps the transcript never changes.             *)
(***************************************************************************)
FreshTranscript == ProofTranscript_new(<<84, 101, 115, 116, 69, 118, 97, 108>>)

TranscriptKept(r) ==
    pc[r] \notin {"transcript", "prove"} =>
        frame'[r].prover_transcript = frame[r].prover_transcript

\* C7: one transcript is created, with the fixed label, after the NumPolys
\* commits; batch_prove is called once, with that transcript untouched, and
\* nothing changes the transcript afterwards
C7_TranscriptSingleUse ==
    /\ [](\A r \in Procs :
            /\ CountOp(r, "transcript_new") <= 1
            /\ CountOp(r, "batch_prove") <= 1
            /\ \A k \in 1..Len(calls[r]) :
                  /\ calls[r][k].op = "transcript_new" =>
                        /\ calls[r][k].label = <<84, 101, 115, 116, 69, 118, 97, 108>>
                        /\ Cardinality({j \in 1..(k - 1) :
                              calls[r][j].op = "commit" /\ calls[r][j].ok}) = NumPolys
                  /\ calls[r][k].op = "batch_prove" =>
                        /\ k = Len(calls[r])
                        /\ k > 1
                        /\ calls[r][k - 1].op = "transcript_new"
                        /\ calls[r][k].transcript = FreshTranscript
                        /\ calls[r][k].polys = frame[r].polys
                        /\ Len(calls[r][k].polys) = NumPolys
                        /\ calls[r][k].point = frame[r].point
                        /\ calls[r][k].claims = frame[r].evals
                        /\ calls[r][k].batch_type = BatchTypeBig
            /\ pc[r] = "prove" => frame[r].prover_transcript = FreshTranscript
            /\ pc[r] = "done" =>
                  /\ CountOp(r, "transcript_new") = 1
                  /\ CountOp(r, "batch_prove") = 1)
    /\ [][\A r \in Procs : TranscriptKept(r)]_vars

C7_Witness ==
    /\ pc[1] = "done"
    /\ calls[1][Len(calls[1])].op = "batch_prove"
    /\ calls[1][Len(calls[1])].ok
    /\ frame[1].prover_transcript # FreshTranscript

(***************************************************************************)
(* C8  Scenario ell = 12, NumPolys = 8, seed = 12: the run ends normally   *)
(* and prints a non-empty hex text whose length is fixed by ell, NumPolys  *)
(* and the proof's two lengths.  As amended: the words of the output are   *)
(* the head words (one leading to the struct, one per field of each of the *)
(* three structs), the elements of the arrays and one length word for each *)
(* of the ten arrays (VK_g2, VK_beta_g2, com, w, v_ypos, v_yneg, v_y,      *)
(* commitments, point, claims).                                            *)
(***************************************************************************)
HeadWordCount ==
    1 + Len(BatchedExample.fields) + Len(VK.fields) + Len(HyperKZGProofSol.fields)

\* the arrays of the value that is encoded
OutputArrays(e) ==
    <<e.vk.VK_g2, e.vk.VK_beta_g2,
      e.proof.com, e.proof.w, e.proof.v_ypos, e.proof.v_yneg, e.proof.v_y,
      e.commitments, e.point, e.claims>>

RECURSIVE SumLens(_, _)
SumLens(as, k) == IF k = 0 THEN 0 ELSE SumLens(as, k - 1) + Len(as[k])

ElementWords(r) ==
    SumLens(OutputArrays(frame[r].example), Len(OutputArrays(frame[r].example)))

HexPerWord == 2 * WordBytes

\* C8 (as stated): the words are the head words, the elements and four
\* length words, for four arrays
C8_FourArrays ==
    \A r \in Procs :
        pc[r] = "done" =>
            /\ stdout[r] # <<>>
            /\ Len(stdout[r]) = HexPerWord * (HeadWordCount + ElementWords(r) + 4)

\* C8 (as amended): the run ends normally, and the text printed is non-empty
\* lowercase hex of 64 digits per word, the words being the head words, the
\* elements of the ten arrays and one length word for each of the ten
C8_Scenario ==
    /\ <>(\A r \in Procs : pc[r] = "done")
    /\ [](\A r \in Procs :
            pc[r] = "done" =>
                /\ stdout[r] # <<>>
                /\ Len(stdout[r]) = HexPerWord * (HeadWordCount + ElementWords(r) + 10)
                /\ Len(stdout[r]) =
                      HexPerWord * (33 + 2 * Len(frame[r].proof.com)
                                       + 2 * Len(frame[r].proof.w)
                                       + Len(frame[r].proof.v[1])
                                       + Len(frame[r].proof.v[2])
                                       + Len(frame[r].proof.v[3])
                                       + ell + 3 * NumPolys)
                /\ \A k \in 1..Len(stdout[r]) : HexVal(stdout[r][k]) >= 0)

C8_Witness ==
    /\ ell = 12 /\ NumPolys = 8 /\ frame[1].rng.key = 12
    /\ pc[1] = "done"
    /\ foldLens = <<MaxFold, MaxFold>>
    /\ Len(stdout[1]) > 0

(***************************************************************************)
(* C9  Round trip of the conversion: every word the program makes from a   *)
(* field element is the 32-byte big-endian form of the element's canonical *)
(* residue; the hex text read back gives the words that were encoded, and  *)
(* with them every scalar and coordinate; over the whole of each field the *)
(* word determines the element.                                            *)
(***************************************************************************)
WordsAreXY(words, ps) ==
    /\ Len(words) <= 2 * Len(ps)
    /\ \A k \in 1..Len(words) :
          WordVal(words[k]) =
              IF k % 2 = 1 THEN FqCanon(ps[(k + 1) \div 2].x)
              ELSE FqCanon(ps[k \div 2].y)

WordsAreScalars(words, xs) ==
    /\ Len(words) <= Len(xs)
    /\ \A k \in 1..Len(words) : WordVal(words[k]) = FrCanon(xs[k])

WordsAreG2(words, p) ==
    words # <<>> => [k \in 1..Len(words) |-> WordVal(words[k])] = FlatG2(p)

WordsOfFrame(f) ==
    /\ WordsAreG2(f.g2_sol, f.g2)
    /\ WordsAreG2(f.g2_beta_sol, f.g2_beta)
    /\ f.vk_sol.VK_g1_x # <<>> =>
          /\ WordVal(f.vk_sol.VK_g1_x) = FqCanon(f.g1.x)
          /\ WordVal(f.vk_sol.VK_g1_y) = FqCanon(f.g1.y)
    /\ WordsAreScalars(f.v_ypos, f.ypos_scalar)
    /\ WordsAreScalars(f.v_yneg, f.yneg_scalar)
    /\ WordsAreScalars(f.v_y, f.y_scalar)
    /\ WordsAreXY(f.com, f.proof.com)
    /\ WordsAreXY(f.w, f.proof.w)
    /\ WordsAreXY(f.encoded_commitments,
                  [k \in 1..Len(f.commitments) |-> f.commitments[k][1]])
    /\ WordsAreScalars(f.point_encoded, f.point)
    /\ WordsAreScalars(f.evals_encoded, f.evals)

HexReadsBack(r) ==
    LET ws == abi_encode_words(BatchedExample, frame[r].example)
    IN  /\ Len(stdout[r]) = HexPerWord * Len(ws)
        /\ HexWords(stdout[r]) = [k \in 1..Len(ws) |-> WordVal(ws[k])]
        /\ \A k \in 1..Len(ws) : WordVal(ws[k]) >= 0

WordDeterminesElement ==
    /\ \A x \in 0..(FqModulus - 1) : WordVal(FqWord(x)) = FqCanon(x)
    /\ \A x \in 0..(FrModulus - 1) : WordVal(FrWord(x)) = FrCanon(x)
    /\ Cardinality({FqCanon(x) : x \in 0..(FqModulus - 1)}) = FqModulus
    /\ Cardinality({FrCanon(x) : x \in 0..(FrModulus - 1)}) = FrModulus

\* C9: every word made from a field element has the element's canonical
\* residue as its big-endian value, the hex text reads back as the words
\* encoded, and distinct elements give distinct words
C9_RoundTrip ==
    \A r \in Procs :
        /\ WordsOfFrame(frame[r])
        /\ pc[r] = "done" => HexReadsBack(r) /\ WordDeterminesElement

C9_Witness ==
    /\ pc[1] = "done"
    /\ HexReadsBack(1)
    /\ \E k \in 1..Len(frame[1].evals) :
          /\ WordVal(frame[1].evals_encoded[k]) > 0
          /\ WordVal(frame[1].evals_encoded[k]) # frame[1].evals[k]
    /\ \E k \in 1..Len(frame[1].encoded_commitments) :
          WordVal(frame[1].encoded_commitments[k]) >= 256

(***************************************************************************)
(* C10  Preconditions: no run panics and none meets a shape mismatch; the  *)
(* size given to Setup and to Trim is n = 2^ell; every polynomial given to *)
(* Commit has n evaluations; BatchProve is given NumPolys > 0 polynomials  *)
(* of n evaluations and as many claims, a point of ell = log2(n) elements  *)
(* that is the point of every evaluation, claim i being the value of       *)
(* evaluation i, and the strategy Big.                                     *)
(***************************************************************************)
CallsOf(r, op) ==
    SelectSeq(calls[r], LAMBDA c : c.op = op)

\* C10: no run panics or meets a shape mismatch; every collaborator call is
\* given sizes, lengths, point and strategy that its contract asks for
C10_Preconditions ==
    \A r \in Procs :
        /\ pc[r] # "panicked"
        /\ cause[r] # "shape"
        /\ \A k \in 1..Len(calls[r]) :
              LET c == calls[r][k]
              IN  /\ c.ok
                  /\ c.op \in {"setup", "trim"} =>
                        c.size = Pow2(ell) /\ IsPow2(c.size) /\ c.size = n
                  /\ c.op \in {"commit", "evaluate"} => c.len = n
                  /\ c.op = "batch_prove" =>
                        /\ Len(c.polys) = NumPolys
                        /\ Len(c.claims) = NumPolys
                        /\ NumPolys > 0
                        /\ \A i \in 1..NumPolys : c.polys[i].len = n
                        /\ Len(c.point) = ell
                        /\ Pow2(Len(c.point)) = c.keys[1]
                        /\ c.keys[1] = n
                        /\ c.batch_type = BatchTypeBig
                        /\ Len(CallsOf(r, "evaluate")) = NumPolys
                        /\ \A i \in 1..NumPolys :
                              /\ CallsOf(r, "evaluate")[i].point = c.point
                              /\ CallsOf(r, "evaluate")[i].value = c.claims[i]

C10_Witness ==
    /\ pc[1] = "done"
    /\ CountOk(1, "batch_prove") = 1
    /\ CountOk(1, "commit") = NumPolys
    /\ CountOk(1, "setup") = 1
    /\ CountOk(1, "trim") = 1

====
